---- MODULE Spec2Model ----
(***************************************************************************)
(* Model of src/app-chat-exp.py: a Streamlit script that turns an uploaded *)
(* UI screenshot into HTML through four chained model calls ("Code UI")    *)
(* and then refines the HTML through free-text chat turns.                 *)
(*                                                                         *)
(* Streamlit executes the whole script, top to bottom, once per user       *)
(* interaction; only st.session_state survives from one execution to the   *)
(* next.  One execution is modelled statement by statement through pc.     *)
(***************************************************************************)
EXTENDS Integers, Sequences, FiniteSets, TLC

VARIABLES
    uploaded_file,      \* value of st.file_uploader: None or the image
    session_state,      \* st.session_state: function from the keys present
    chat_session,       \* chat_session.history: messages exchanged so far
    pc,                 \* position of the script execution; "idle" between
                        \* two executions
    trigger,            \* the widget interaction that caused this execution
    description,        \* locals of main()
    refined_description,
    initial_html,
    updated_html,
    shown,              \* widgets rendered by the current / last execution
    error,              \* st.error was called by the current / last execution
    calls,              \* history: model calls issued by this execution
    run_start,          \* history: session_state when the action began
    followups           \* history: the last follow-up turns completed in a row

vars == <<uploaded_file, session_state, chat_session, pc, trigger,
          description, refined_description, initial_html, updated_html,
          shown, error, calls, run_start, followups>>

----------------------------------------------------------------------------
(* Bounds and value domains                                                *)

\* turn-history length up to which new user actions are still explored
MaxHist == 5

\* texts the external model may return when asked for HTML (opaque
\* strings; "" is the empty text)
Texts == {"", "<html>A</html>", "<html>B</html>"}

\* texts the external model may return when asked for a description
Descriptions == {"", "D"}

\* texts a user may type in the chat input (st.chat_input yields non-empty)
Inputs == {"make the button red", "bigger"}

\* images a user may upload
Images == {"I"}

None == "None"
Fail == "<raised>"

\* line 35
framework == "Regular CSS"

----------------------------------------------------------------------------
(* st.session_state                                                        *)

HasKey(s, k) == k \in DOMAIN s

SetKey(s, k, v) ==
    [x \in (DOMAIN s) \cup {k} |-> IF x = k THEN v ELSE s[x]]

EmptySessionState == [x \in {} |-> ""]

\* variant: the defaults are assigned without looking for the keys
InitDefaultsAlways(s) ==
    SetKey(SetKey(s, "refined_html", ""), "chat_history", <<>>)

\* lines 81-84: defaults for the keys that do not exist yet
InitDefaults(s) ==
    LET s1 == IF HasKey(s, "refined_html") THEN s
              ELSE SetKey(s, "refined_html", "")
    IN  IF HasKey(s1, "chat_history") THEN s1
        ELSE SetKey(s1, "chat_history", <<>>)

\* The session state as the specification names it: a key that was never
\* set reads as the empty value the session starts with.
currentHTML ==
    IF HasKey(session_state, "refined_html")
    THEN session_state["refined_html"] ELSE ""

turnHistory ==
    IF HasKey(session_state, "chat_history")
    THEN session_state["chat_history"] ELSE <<>>

HtmlOf(s) == IF HasKey(s, "refined_html") THEN s["refined_html"] ELSE ""
HistOf(s) == IF HasKey(s, "chat_history") THEN s["chat_history"] ELSE <<>>

----------------------------------------------------------------------------
(* Prompts: each f-string is the template plus the texts it embeds         *)

\* line 89
DescribePrompt == [template |-> "describe"]

\* line 94
RefinePrompt(d) == [template |-> "refine_description", embedded |-> d]

\* line 99
HtmlPrompt(rd) ==
    [template |-> "html", framework |-> framework, embedded |-> rd]

\* variant: stage 4 is given the refined description instead of the HTML
RefineHtmlPromptFromDescription(h) ==
    [template |-> "refine_html", framework |-> framework,
     embedded |-> refined_description]

\* line 103
RefineHtmlPrompt(h) ==
    [template |-> "refine_html", framework |-> framework, embedded |-> h]

\* variant: the prompt is built without the current HTML
FollowUpPromptNoHtml(h, t) ==
    [template |-> "followup", framework |-> framework, embedded |-> "",
     user_input |-> t]

\* line 121
FollowUpPrompt(h, t) ==
    [template |-> "followup", framework |-> framework, embedded |-> h,
     user_input |-> t]

----------------------------------------------------------------------------
(* send_message_to_model, lines 48-57                                      *)

\* lines 49-56: the content handed to chat_session.send_message
Content(message, image_path) ==
    IF image_path # None
    THEN [role |-> "user", message |-> message, image |-> image_path]
    ELSE [role |-> "user", message |-> message, image |-> None]

ModelReply(text) == [role |-> "model", text |-> text]

\* variant: the image goes only with the first message of a chat session
SendMessageImageOnce(stage, message, image_path, outcome, committed) ==
    LET img == IF chat_session = <<>> THEN image_path ELSE None IN
    /\ calls' = Append(calls, [stage |-> stage, message |-> message,
                               image |-> img,
                               context |-> chat_session,
                               outcome |-> outcome])
    /\ chat_session' =
         IF outcome # Fail
         THEN chat_session \o <<Content(message, img), ModelReply(outcome)>>
         ELSE chat_session

\* One call.  outcome is the text returned, or Fail when an exception is
\* raised; committed tells whether the raise came after the chat session
\* had recorded the exchange (response.text, line 57) or before (lines
\* 54/56).  The call is logged with the context it was made with.
SendMessage(stage, message, image_path, outcome, committed) ==
    /\ calls' = Append(calls, [stage |-> stage, message |-> message,
                               image |-> image_path,
                               context |-> chat_session,
                               outcome |-> outcome])
    /\ chat_session' =
         IF outcome # Fail
         THEN chat_session \o <<Content(message, image_path), ModelReply(outcome)>>
         ELSE IF committed
         THEN chat_session \o <<Content(message, image_path), ModelReply(Fail)>>
         ELSE chat_session

\* variant: the handler ends main() without reporting
RaiseUnreported ==
    /\ UNCHANGED error
    /\ pc' = "done"

\* lines 153-154: the exception reaches the handler, main() is over
Raise ==
    /\ error' = TRUE
    /\ pc' = "done"

----------------------------------------------------------------------------
Init ==
    /\ uploaded_file = None
    /\ session_state = EmptySessionState
    /\ chat_session = <<>>
    /\ pc = "idle"
    /\ trigger = [widget |-> None, text |-> None]
    /\ description = None
    /\ refined_description = None
    /\ initial_html = None
    /\ updated_html = None
    /\ shown = {}
    /\ error = FALSE
    /\ calls = <<>>
    /\ run_start = EmptySessionState
    /\ followups = <<>>

----------------------------------------------------------------------------
(* A user interaction starts a new execution of the script.                *)

Locals == <<description, refined_description, initial_html, updated_html>>

\* variant: an interaction starts an execution while one is in progress
RerunAnytime(widget, text) ==
    /\ pc \notin {"main", "done"}
    /\ pc' = "main"
    /\ trigger' = [widget |-> widget, text |-> text]
    /\ chat_session' = <<>>
    /\ shown' = {}
    /\ error' = FALSE
    /\ calls' = <<>>
    /\ run_start' = session_state
    /\ UNCHANGED <<session_state, followups, Locals>>

\* lines 1-45 and 156-157: the module is executed again, which builds a new
\* chat session (line 45), and main() is entered with fresh locals.
Rerun(widget, text) ==
    /\ pc = "idle"
    /\ pc' = "main"
    /\ trigger' = [widget |-> widget, text |-> text]
    /\ chat_session' = <<>>
    /\ shown' = {}
    /\ error' = FALSE
    /\ calls' = <<>>
    /\ run_start' = session_state
    /\ UNCHANGED <<session_state, followups, Locals>>

\* line 63: the user picks a file in the uploader
UploadFile ==
    /\ \E img \in Images :
         /\ uploaded_file # img
         /\ uploaded_file' = img
    /\ Rerun(None, None)

\* line 63: the user removes the file from the uploader
RemoveFile ==
    /\ uploaded_file # None
    /\ uploaded_file' = None
    /\ Rerun(None, None)

\* line 87: the user presses "Code UI" (rendered by the last execution)
ClickCodeUI ==
    /\ "Code UI" \in shown
    /\ Len(turnHistory) + 1 <= MaxHist
    /\ UNCHANGED uploaded_file
    /\ Rerun("Code UI", None)

\* line 113: the user submits a text in the chat input
SubmitChat ==
    /\ "chat_input" \in shown
    /\ Len(turnHistory) + 2 <= MaxHist
    /\ UNCHANGED uploaded_file
    /\ \E t \in Inputs : Rerun("chat_input", t)

----------------------------------------------------------------------------
(* main(), lines 60-154                                                    *)

\* lines 63-78: nothing happens without a file; otherwise the image is
\* opened, converted and saved, any of which may raise
LoadImage ==
    /\ pc = "main"
    /\ \/ /\ uploaded_file = None
          /\ pc' = "done"
          /\ UNCHANGED error
       \/ /\ uploaded_file # None
          /\ pc' = "init"
          /\ UNCHANGED error
       \/ /\ uploaded_file # None
          /\ Raise
    /\ UNCHANGED <<uploaded_file, session_state, chat_session, trigger,
                   Locals, shown, calls, run_start, followups>>

\* lines 81-87: session-state defaults, then the button
InitSessionState ==
    /\ pc = "init"
    /\ session_state' = InitDefaults(session_state)
    /\ shown' = shown \cup {"Code UI"}
    /\ pc' = IF trigger.widget = "Code UI" THEN "describe" ELSE "chat_input"
    /\ UNCHANGED <<uploaded_file, chat_session, trigger, Locals, error,
                   calls, run_start, followups>>

\* lines 76-78: the temporary JPEG written from the uploaded image
temp_image_path == uploaded_file

\* what a call to the external model may produce: a text, or an exception
Outcomes == Texts \cup {Fail}
DescriptionOutcomes == Descriptions \cup {Fail}

Commits(outcome) == IF outcome = Fail THEN BOOLEAN ELSE {TRUE}

\* variant: the exception is swallowed and the script goes on
AfterCallSwallowed(outcome, next) ==
    /\ pc' = next
    /\ UNCHANGED error

\* variant: a call that raised is made again
AfterCallRetry(outcome, next) ==
    /\ pc' = IF outcome = Fail THEN pc ELSE next
    /\ UNCHANGED error

\* Control after a model call: an exception leaves the try block (lines
\* 153-154), a returned text lets the script go on to the next statement.
AfterCall(outcome, next) ==
    IF outcome = Fail
    THEN Raise
    ELSE /\ pc' = next
         /\ UNCHANGED error

\* the value a local holds after "local = send_message_to_model(...)"
Assigned(old, outcome) == IF outcome = Fail THEN old ELSE outcome

\* variant: the pipeline stores the stage-3 HTML instead of the stage-4 one
StoreInitialHtml(s, text) ==
    SetKey(s, "refined_html", IF initial_html # None THEN initial_html ELSE text)

\* variant: an HTML already present is not overwritten
StoreOnlyIfEmpty(s, text) ==
    IF s["refined_html"] = "" THEN SetKey(s, "refined_html", text) ELSE s

\* line 104 / line 123: st.session_state['refined_html'] = text
StoreRefinedHtml(s, text) == SetKey(s, "refined_html", text)

\* variant: the reply entry holds the request instead of the returned text
AppendHistoryRequestText(s, role, text) ==
    SetKey(s, "chat_history",
           Append(s["chat_history"],
                  <<role, IF role = "assistant" THEN trigger.text ELSE text>>))

\* variant: the history is replaced by the new entry
ReplaceHistory(s, role, text) ==
    SetKey(s, "chat_history", << <<role, text>> >>)

\* variant: the new entry is put in front
PrependHistory(s, role, text) ==
    SetKey(s, "chat_history", << <<role, text>> >> \o s["chat_history"])

\* variant: the request is not echoed into the history
AppendHistorySkipUser(s, role, text) ==
    IF role = "user" THEN s
    ELSE SetKey(s, "chat_history", Append(s["chat_history"], <<role, text>>))

\* lines 105, 115, 124: st.session_state['chat_history'].append((role, text))
AppendHistory(s, role, text) ==
    SetKey(s, "chat_history", Append(s["chat_history"], <<role, text>>))

\* lines 88-91, stage 1
Describe ==
    /\ pc = "describe"
    /\ \E outcome \in DescriptionOutcomes : \E committed \in Commits(outcome) :
         /\ SendMessage("describe", DescribePrompt, temp_image_path,
                        outcome, committed)
         /\ description' = Assigned(description, outcome)
         /\ AfterCall(outcome, "refine_description")
    /\ UNCHANGED <<uploaded_file, session_state, trigger,
                   refined_description, initial_html, updated_html, shown,
                   run_start, followups>>

\* lines 93-96, stage 2
RefineDescription ==
    /\ pc = "refine_description"
    /\ \E outcome \in DescriptionOutcomes : \E committed \in Commits(outcome) :
         /\ SendMessage("refine_description", RefinePrompt(description),
                        temp_image_path, outcome, committed)
         /\ refined_description' = Assigned(refined_description, outcome)
         /\ AfterCall(outcome, "generate_html")
    /\ UNCHANGED <<uploaded_file, session_state, trigger, description,
                   initial_html, updated_html, shown, run_start,
                   followups>>

\* lines 98-100, stage 3
GenerateHTML ==
    /\ pc = "generate_html"
    /\ \E outcome \in Outcomes : \E committed \in Commits(outcome) :
         /\ SendMessage("generate_html", HtmlPrompt(refined_description),
                        temp_image_path, outcome, committed)
         /\ initial_html' = Assigned(initial_html, outcome)
         /\ AfterCall(outcome, "refine_html")
    /\ UNCHANGED <<uploaded_file, session_state, trigger, description,
                   refined_description, updated_html, shown, run_start,
                   followups>>

\* lines 102-104, stage 4: the returned text is stored in the session state
RefineHTML ==
    /\ pc = "refine_html"
    /\ \E outcome \in Outcomes : \E committed \in Commits(outcome) :
         /\ SendMessage("refine_html", RefineHtmlPrompt(initial_html),
                        temp_image_path, outcome, committed)
         /\ session_state' =
              IF outcome = Fail THEN session_state
              ELSE StoreRefinedHtml(session_state, outcome)
         /\ AfterCall(outcome, "append_initial")
    /\ UNCHANGED <<uploaded_file, trigger, Locals, shown, run_start,
                   followups>>

\* line 105
AppendInitialHtml ==
    /\ pc = "append_initial"
    /\ session_state' = AppendHistory(session_state, "Initial HTML Code",
                                      session_state["refined_html"])
    /\ followups' = <<>>
    /\ pc' = "chat_input"
    /\ UNCHANGED <<uploaded_file, chat_session, trigger, Locals, shown,
                   error, calls, run_start>>

\* lines 108-117: the history is displayed, the chat input is rendered and
\* a submitted text is appended to the history
ChatInput ==
    /\ pc = "chat_input"
    /\ shown' = shown \cup {"chat_input"}
    /\ IF trigger.widget = "chat_input"
       THEN /\ session_state' = AppendHistory(session_state, "user",
                                              trigger.text)
            /\ pc' = "followup"
       ELSE /\ pc' = "display"
            /\ UNCHANGED session_state
    /\ UNCHANGED <<uploaded_file, chat_session, trigger, Locals, error,
                   calls, run_start, followups>>

\* lines 119-122: the one model call of a follow-up turn, without image
FollowUp ==
    /\ pc = "followup"
    /\ \E outcome \in Outcomes : \E committed \in Commits(outcome) :
         /\ SendMessage("followup",
                        FollowUpPrompt(session_state["refined_html"],
                                       trigger.text),
                        None, outcome, committed)
         /\ updated_html' = Assigned(updated_html, outcome)
         /\ followups' = IF outcome = Fail THEN <<>> ELSE followups
         /\ AfterCall(outcome, "store_updated")
    /\ UNCHANGED <<uploaded_file, session_state, trigger, description,
                   refined_description, initial_html, shown, run_start>>

LastTwo(q) == IF Len(q) > 2 THEN Tail(q) ELSE q

\* line 123
StoreUpdatedHtml ==
    /\ pc = "store_updated"
    /\ session_state' = StoreRefinedHtml(session_state, updated_html)
    /\ pc' = "append_assistant"
    /\ UNCHANGED <<uploaded_file, chat_session, trigger, Locals, shown,
                   error, calls, run_start, followups>>

\* lines 124-126; the completed turn is remembered: its request, the call
\* it made, the text returned and the HTML it left in the session state
AppendAssistant ==
    /\ pc = "append_assistant"
    /\ session_state' = AppendHistory(session_state, "assistant",
                                      updated_html)
    /\ followups' = LastTwo(Append(followups,
                         [text |-> trigger.text,
                          prompt |-> calls[Len(calls)].message,
                          context |-> calls[Len(calls)].context,
                          returned |-> updated_html,
                          html |-> session_state["refined_html"]]))
    /\ pc' = "display"
    /\ UNCHANGED <<uploaded_file, chat_session, trigger, Locals, shown,
                   error, calls, run_start>>

\* lines 129-151: code view, preview and download for a non-empty HTML
Display ==
    /\ pc = "display"
    /\ shown' = IF session_state["refined_html"] # ""
                THEN shown \cup {"preview", "download"}
                ELSE shown
    /\ pc' = "done"
    /\ UNCHANGED <<uploaded_file, session_state, chat_session, trigger,
                   Locals, error, calls, run_start, followups>>

\* line 157: main() has returned and the script ends.  Its locals and the
\* module's globals, the chat session among them, go with it; the page and
\* st.session_state stay.
Finish ==
    /\ pc = "done"
    /\ pc' = "idle"
    /\ trigger' = [widget |-> None, text |-> None]
    /\ chat_session' = <<>>
    /\ description' = None
    /\ refined_description' = None
    /\ initial_html' = None
    /\ updated_html' = None
    /\ calls' = <<>>
    /\ run_start' = EmptySessionState
    /\ UNCHANGED <<uploaded_file, session_state, shown, error, followups>>

----------------------------------------------------------------------------
Next ==
    \/ UploadFile
    \/ RemoveFile
    \/ ClickCodeUI
    \/ SubmitChat
    \/ LoadImage
    \/ InitSessionState
    \/ Describe
    \/ RefineDescription
    \/ GenerateHTML
    \/ RefineHTML
    \/ AppendInitialHtml
    \/ ChatInput
    \/ FollowUp
    \/ StoreUpdatedHtml
    \/ AppendAssistant
    \/ Display
    \/ Finish

Spec == Init /\ [][Next]_vars

----------------------------------------------------------------------------
(* Vocabulary of the properties                                            *)

IsPrefix(a, b) == Len(a) <= Len(b) /\ SubSeq(b, 1, Len(a)) = a

\* roles of the history entries that carry HTML: the follow-up replies and
\* the pipeline's entry, which the code labels "Initial HTML Code"
HtmlRoles == {"assistant", "Initial HTML Code"}

HtmlEntries(h) == {i \in 1..Len(h) : h[i][1] \in HtmlRoles}

Max(S) == CHOOSE x \in S : \A y \in S : y <= x

\* content of the most recent HTML-bearing entry; the empty text the
\* session starts with when there is none yet
LastHtml(h) == IF HtmlEntries(h) = {} THEN "" ELSE h[Max(HtmlEntries(h))][2]

PipelineRun == trigger.widget = "Code UI"
FollowUpRun == trigger.widget = "chat_input"

\* the execution has passed its last history append
PastAppends == pc \in {"chat_input", "display", "done"}

PipelineSucceeded ==
    /\ PipelineRun
    /\ Len(calls) = 4
    /\ calls[4].outcome # Fail

FollowUpSucceeded ==
    /\ FollowUpRun
    /\ Len(calls) = 1
    /\ calls[1].outcome # Fail

FailedCalls == {i \in 1..Len(calls) : calls[i].outcome = Fail}
EmptyCalls == {i \in 1..Len(calls) : calls[i].outcome = ""}

----------------------------------------------------------------------------
\* C1: after a successful four-stage run, whatever the session state it
\* started from, currentHTML is exactly the text the stage-4 call returned.
C1_Stage4Verbatim ==
    PipelineSucceeded => currentHTML = calls[4].outcome

\* a successful run that replaced an earlier, different HTML has ended
C1_Witness ==
    /\ pc = "done"
    /\ PipelineSucceeded
    /\ HtmlOf(run_start) = "<html>A</html>"
    /\ calls[3].outcome = "<html>A</html>"
    /\ calls[4].outcome = "<html>B</html>"

\* an action the specification allows: a pipeline run, or a follow-up turn
\* on a non-empty currentHTML
ValidAction == PipelineRun \/ (FollowUpRun /\ HtmlOf(run_start) # "")

\* C2 as stated, over the executions of valid actions: in every state,
\* also between two statements, currentHTML is the content of the most
\* recent HTML-bearing history entry.
C2_AlwaysLastHtmlEntry ==
    ValidAction => currentHTML = LastHtml(turnHistory)

\* C2 amended: the equality holds everywhere except between the statement
\* that stores the returned HTML (line 104, line 123) and the statement
\* right after it that appends the history entry (line 105, line 124).
C2_LastHtmlEntryOutsideStore ==
    pc \notin {"append_initial", "append_assistant"}
        => currentHTML = LastHtml(turnHistory)

\* a follow-up turn has replaced the pipeline's HTML by a different one
C2_Witness ==
    /\ pc = "done"
    /\ FollowUpSucceeded
    /\ Len(turnHistory) = 3
    /\ turnHistory[1] = <<"Initial HTML Code", "<html>A</html>">>
    /\ turnHistory[3] = <<"assistant", "<html>B</html>">>

\* C3: every step leaves the previous turn history as a prefix of the new.
C3_HistoryAppendOnly == [][IsPrefix(turnHistory, turnHistory')]_vars

\* a history grown by a pipeline run and a follow-up turn, after which a
\* further action failed
C3_Witness ==
    /\ pc = "done"
    /\ error
    /\ Len(calls) > 0
    /\ Len(turnHistory) >= 3
    /\ turnHistory[1][1] = "Initial HTML Code"
    /\ turnHistory[2][1] = "user"
    /\ turnHistory[3][1] = "assistant"

\* C4 as stated: a follow-up submitted while currentHTML is empty changes
\* neither the history nor currentHTML and makes no model call.
C4_EmptyFollowUpRejected ==
    (FollowUpRun /\ HtmlOf(run_start) = "")
        => /\ turnHistory = HistOf(run_start)
           /\ currentHTML = HtmlOf(run_start)
           /\ calls = <<>>

\* C5: when the call of a pipeline stage raises, it is the last call of the
\* run, the failure is reported, and currentHTML and the turn history are
\* what they were before the run.
C5_StageFailureAborts ==
    (PipelineRun /\ FailedCalls # {})
        => /\ FailedCalls = {Len(calls)}
           /\ pc = "done"
           /\ error
           /\ currentHTML = HtmlOf(run_start)
           /\ turnHistory = HistOf(run_start)

\* stage 3 raised in a session that already held HTML and history
C5_Witness ==
    /\ PipelineRun
    /\ Len(calls) = 3
    /\ calls[3].outcome = Fail
    /\ HtmlOf(run_start) # ""
    /\ Len(HistOf(run_start)) >= 1

\* C6: a successful follow-up with text t on a non-empty currentHTML sets
\* currentHTML to the returned text and appends (user, t) and then
\* (assistant, returned text), nothing else.
C6_FollowUpAppendsPair ==
    (FollowUpSucceeded /\ pc \in {"display", "done"}
                       /\ HtmlOf(run_start) # "")
        => /\ currentHTML = calls[1].outcome
           /\ turnHistory = HistOf(run_start)
                              \o << <<"user", trigger.text>>,
                                    <<"assistant", calls[1].outcome>> >>

\* Scenario B: after a pipeline run left <html>A</html>, a follow-up
\* returned <html>B</html>
C6_Witness ==
    /\ pc = "done"
    /\ FollowUpSucceeded
    /\ HistOf(run_start) = << <<"Initial HTML Code", "<html>A</html>">> >>
    /\ HtmlOf(run_start) = "<html>A</html>"
    /\ calls[1].outcome = "<html>B</html>"
    /\ trigger.text = "make the button red"

\* C7: a successful pipeline run appends exactly one entry, labelled as the
\* pipeline's HTML and holding refinedHTML; description, refinedDescription
\* and initialHTML are not appended.  On a fresh session the history is
\* that one entry, equal to currentHTML.
C7_PipelineAppendsOneEntry ==
    (PipelineSucceeded /\ PastAppends)
        => /\ turnHistory = HistOf(run_start)
                              \o << <<"Initial HTML Code", calls[4].outcome>> >>
           /\ turnHistory[Len(turnHistory)][1] \in HtmlRoles
           /\ turnHistory[Len(turnHistory)][2] = currentHTML
           /\ HistOf(run_start) = <<>>
                => /\ Cardinality(HtmlEntries(turnHistory)) = 1
                   /\ Len(turnHistory) = 1

\* Scenario A on a fresh session, the intermediate texts all different
\* from the final HTML
C7_Witness ==
    /\ pc = "done"
    /\ PipelineSucceeded
    /\ HistOf(run_start) = <<>>
    /\ calls[1].outcome = "D"
    /\ calls[2].outcome = "D"
    /\ calls[3].outcome = "<html>A</html>"
    /\ calls[4].outcome = "<html>B</html>"
    /\ turnHistory = << <<"Initial HTML Code", "<html>B</html>">> >>

----------------------------------------------------------------------------
(* Resending a follow-up                                                   *)

\* the same request was submitted twice in a row on a non-empty
\* currentHTML and both turns completed; the second has just completed
Resent ==
    /\ FollowUpSucceeded
    /\ pc \in {"display", "done"}
    /\ Len(followups) = 2
    /\ followups[1].text = followups[2].text
    /\ followups[1].prompt.embedded # ""
    /\ followups[2].prompt.embedded # ""

\* the two calls are consistent with a deterministic model: the same input
\* (context, prompt, no image) gets the same text
Deterministic(f, g) ==
    (f.prompt = g.prompt /\ f.context = g.context) => f.returned = g.returned

\* C8 as stated: with a deterministic stub, resending the same follow-up
\* text leaves the same currentHTML as the first submission did.
C8_ResendSameHtml ==
    (Resent /\ Deterministic(followups[1], followups[2]))
        => followups[2].html = followups[1].html

\* C8 amended: each submission leaves as currentHTML the text the stub
\* returned to it and appends exactly (user, text), (assistant, returned
\* text); the second currentHTML is the first one whenever the stub returns
\* the same text to both calls.
C8_ResendAppendsPairs ==
    Resent
        => /\ followups[1].html = followups[1].returned
           /\ followups[2].html = followups[2].returned
           /\ currentHTML = followups[2].returned
           /\ followups[2].returned = followups[1].returned
                => currentHTML = followups[1].html
           /\ Len(turnHistory) >= 4
           /\ SubSeq(turnHistory, Len(turnHistory) - 3, Len(turnHistory))
                = << <<"user", followups[1].text>>,
                     <<"assistant", followups[1].returned>>,
                     <<"user", followups[2].text>>,
                     <<"assistant", followups[2].returned>> >>

\* the request was sent twice, the stub gave the same non-empty text twice
C8_Witness ==
    /\ Resent
    /\ pc = "done"
    /\ followups[1].prompt # followups[2].prompt
    /\ followups[1].returned = "<html>B</html>"
    /\ followups[2].returned = "<html>B</html>"

\* C9 as stated, its last clause: the conversation context handed to the
\* model is only ever extended, never reset.
C9_ContextNeverReset == [][IsPrefix(chat_session, chat_session')]_vars

\* C10 as stated: a pipeline stage returning the empty text ends the run
\* like a raised error: no later stage is called, currentHTML and the turn
\* history stay what they were before the run.
C10_EmptyStageAborts ==
    (PipelineRun /\ EmptyCalls # {})
        => /\ EmptyCalls = {Len(calls)}
           /\ currentHTML = HtmlOf(run_start)
           /\ turnHistory = HistOf(run_start)

----------------------------------------------------------------------------
(* Failures                                                                *)

\* the follow-up turn of this execution has echoed its request
Echoed ==
    /\ FollowUpRun
    /\ Len(turnHistory) > Len(HistOf(run_start))

\* C11: in a follow-up turn (user, text) is in the history before the
\* model call is made; when the call raises, that entry stays the last
\* one, no assistant entry is appended and currentHTML is unchanged.
C11_OrphanedUserEntry ==
    /\ (FollowUpRun /\ (pc = "followup" \/ Len(calls) > 0))
          => IsPrefix(HistOf(run_start) \o << <<"user", trigger.text>> >>,
                      turnHistory)
    /\ (FollowUpRun /\ pc = "followup") => calls = <<>>
    /\ (FollowUpRun /\ FailedCalls # {})
          => /\ turnHistory
                  = HistOf(run_start) \o << <<"user", trigger.text>> >>
             /\ currentHTML = HtmlOf(run_start)
             /\ pc = "done"
             /\ error

\* a follow-up on the pipeline's HTML raised
C11_Witness ==
    /\ FollowUpRun
    /\ FailedCalls = {1}
    /\ HtmlOf(run_start) = "<html>A</html>"
    /\ turnHistory = << <<"Initial HTML Code", "<html>A</html>">>,
                        <<"user", "bigger">> >>

\* an execution in which a model call raised has reached its end
FailedExecution == pc = "done" /\ FailedCalls # {}

\* C12 as stated: after a failed pipeline stage or follow-up call the
\* failure is reported and the session is idle with both the pipeline
\* button and the chat input accepting the next action.
C12_BothAcceptedAfterFailure ==
    [][FailedExecution
         => /\ pc' = "idle"
            /\ error'
            /\ {"Code UI", "chat_input"} \subseteq shown']_vars

\* C12 amended: after such a failure the failure is reported, the
\* execution ends and the session is idle; the pipeline button accepts
\* the next action, and so does the chat input after a failed follow-up
\* call.  After a failed pipeline stage the chat input is not on the page
\* (line 113 was not reached) until an execution reaches it again.  No
\* execution in progress is ever without a next step, and a widget on
\* the page of an idle session starts the next execution.
C12_UsableAfterFailure ==
    /\ [][FailedExecution
            => /\ pc' = "idle"
               /\ error'
               /\ "Code UI" \in shown'
               /\ FollowUpRun <=> "chat_input" \in shown']_vars
    /\ [](pc # "idle" => ENABLED Next)
    /\ []((pc = "idle" /\ "Code UI" \in shown
                       /\ Len(turnHistory) + 1 <= MaxHist)
            => ENABLED ClickCodeUI)
    /\ []((pc = "idle" /\ "chat_input" \in shown
                       /\ Len(turnHistory) + 2 <= MaxHist)
            => ENABLED SubmitChat)

\* the session is idle after a failed pipeline stage: error shown, button
\* shown, chat input not shown
C12_Witness ==
    /\ pc = "idle"
    /\ error
    /\ shown = {"Code UI"}
    /\ currentHTML # ""

StageOrder == <<"describe", "refine_description", "generate_html",
                "refine_html">>

\* C13: the calls of a pipeline run are made in the order Describe,
\* Refine-Description, Generate-HTML, Refine-HTML; a stage is called only
\* after the one before it returned a text, and its prompt embeds exactly
\* that text.
C13_StagesChained ==
    PipelineRun
        => /\ Len(calls) <= 4
           /\ \A i \in 1..Len(calls) :
                /\ calls[i].stage = StageOrder[i]
                /\ i > 1 => /\ calls[i-1].outcome # Fail
                            /\ calls[i].message.embedded = calls[i-1].outcome

\* a run whose four stages returned four different texts
C13_Witness ==
    /\ pc = "done"
    /\ PipelineSucceeded
    /\ calls[1].outcome = "D"
    /\ calls[2].outcome = ""
    /\ calls[3].outcome = "<html>B</html>"
    /\ calls[4].outcome = "<html>A</html>"

----------------------------------------------------------------------------
(* Model calls                                                             *)

\* C14: every call of a pipeline run attaches the uploaded image, the same
\* for all four, in the call and in the message kept by the chat session;
\* a follow-up call attaches none.
C14_ImagePolicy ==
    /\ \A i \in 1..Len(calls) :
         /\ PipelineRun => /\ calls[i].image # None
                           /\ calls[i].image = uploaded_file
         /\ FollowUpRun => calls[i].image = None
    /\ \A j \in 1..Len(chat_session) :
         chat_session[j].role = "user"
            => chat_session[j].image
                 = (IF PipelineRun THEN uploaded_file ELSE None)

\* four calls with the image were made, and the session has seen a
\* follow-up call before
C14_Witness ==
    /\ PipelineSucceeded
    /\ Len(chat_session) = 8
    /\ chat_session[7].image = "I"
    /\ Len(HistOf(run_start)) >= 2
    /\ HistOf(run_start)[2][1] = "user"

\* C15: no stage is called twice in a run and a follow-up turn makes at
\* most one call; a call that raised is the last call of its action; a
\* pipeline run that ends without failure has made exactly four calls, a
\* follow-up turn that has ended exactly one; an execution started by
\* neither makes none.
C15_NoRetries ==
    /\ \A i, j \in 1..Len(calls) : calls[i].stage = calls[j].stage => i = j
    /\ FailedCalls \subseteq {Len(calls)}
    /\ PipelineRun => Len(calls) <= 4
    /\ FollowUpRun => Len(calls) <= 1
    /\ (PipelineRun /\ pc = "done" /\ ~error) => Len(calls) = 4
    /\ (Echoed /\ pc = "done") => Len(calls) = 1
    /\ (~PipelineRun /\ ~FollowUpRun) => calls = <<>>

\* a run ended by a raise of its third stage
C15_Witness ==
    /\ PipelineRun
    /\ pc = "done"
    /\ error
    /\ Len(calls) = 3
    /\ calls[2].outcome = "D"

----------------------------------------------------------------------------
(* One action at a time                                                    *)

ActionInFlight == (PipelineRun \/ FollowUpRun) /\ pc # "idle"

PipelineStages == {StageOrder[i] : i \in 1..4}

----------------------------------------------------------------------------
(* What a follow-up reads, and who writes                                  *)

\* C17: the HTML embedded in a follow-up prompt is currentHTML as it was
\* when the request was submitted, which is the text of the most recent
\* successful pipeline run or follow-up turn (the last HTML-bearing
\* history entry), whatever failed in between.
C17_FollowUpEmbedsCurrentHtml ==
    (FollowUpRun /\ Len(calls) > 0)
        => /\ calls[1].message.embedded = HtmlOf(run_start)
           /\ calls[1].message.embedded = LastHtml(HistOf(run_start))
           /\ calls[1].message.user_input = trigger.text

\* a follow-up call made after an earlier follow-up on the same HTML had
\* failed
C17_Witness ==
    /\ FollowUpRun
    /\ Len(calls) = 1
    /\ HistOf(run_start) = << <<"Initial HTML Code", "<html>B</html>">>,
                              <<"user", "bigger">> >>
    /\ calls[1].message.embedded = "<html>B</html>"

\* C18: currentHTML and turnHistory change only when stage 4 completes
\* and in follow-up turns; stages 1, 2 and 3, returning or raising, leave
\* both unchanged.
C18_OnlyStage4AndFollowUpsWrite ==
    [][/\ (currentHTML' # currentHTML \/ turnHistory' # turnHistory)
            => \/ (PipelineRun /\ pc \in {"refine_html", "append_initial"})
               \/ (FollowUpRun /\ pc \in {"chat_input", "store_updated",
                                          "append_assistant"})
       /\ pc \in {"describe", "refine_description", "generate_html"}
            => /\ currentHTML' = currentHTML
               /\ turnHistory' = turnHistory]_vars

\* stage 3 has returned in a session that already holds HTML and history
C18_Witness ==
    /\ pc = "refine_html"
    /\ Len(calls) = 3
    /\ currentHTML = "<html>A</html>"
    /\ calls[3].outcome = "<html>B</html>"
    /\ Len(turnHistory) = 3

\* C19: every entry with role "assistant" comes right after an entry with
\* role "user"; a user entry appended by the execution in progress is
\* the last one only while its call is pending or after that call raised.
C19_AssistantAnswersUser ==
    /\ \A i \in 1..Len(turnHistory) :
         turnHistory[i][1] = "assistant"
            => /\ i > 1
               /\ turnHistory[i-1][1] = "user"
    /\ (Echoed /\ turnHistory[Len(turnHistory)][1] = "user")
          => \/ pc \in {"followup", "store_updated", "append_assistant"}
             \/ (pc = "done" /\ FailedCalls = {1})

\* a user entry left without reply by a failed call, then a turn that was
\* answered
C19_Witness ==
    /\ pc = "done"
    /\ Len(turnHistory) = 4
    /\ turnHistory[1][1] = "Initial HTML Code"
    /\ turnHistory[2][1] = "user"
    /\ turnHistory[3][1] = "user"
    /\ turnHistory[4][1] = "assistant"

====
